---- MODULE Spec2Model ----
(***************************************************************************)
(* Model of the agent-economy demo: the x402 payment client                *)
(* (src/x402_client.py), the market agent (src/market_agent.py) and the    *)
(* memory store (src/agent_memory.py).                                     *)
(*                                                                         *)
(* Amounts are integers in units of 0.00001 USDC, so 10.00 USDC is 1000000 *)
(* and the 0.01 USDC data price is 1000.  Python's binary floating point   *)
(* rounding is not modelled: every amount the model uses is an exact       *)
(* multiple of the unit.                                                   *)
(*                                                                         *)
(* random.randbytes(n) is modelled as a fresh value: the k-th draw of a    *)
(* client is RandBytes(k), so two draws never collide.  Values chosen by   *)
(* the remote server are FromServer(k) and are under the server's control. *)
(***************************************************************************)
EXTENDS Integers, Sequences, FiniteSets, TLC

VARIABLES
    mode,            \* X402Client.mode
    balance_usdc,    \* X402Client.balance_usdc
    total_spent,     \* X402Client.total_spent
    payment_count,   \* X402Client.payment_count
    payments,        \* X402Client.payments, the in-memory receipt ledger
    rand_draws,      \* number of random.randbytes values drawn for ids
    market_data,     \* AgentMemory table market_data
    payment_log,     \* AgentMemory table payment_log
    strategy_log,    \* AgentMemory table strategy_log
    agent_state,     \* AgentMemory table agent_state, keyed by agent_id
    clock,           \* the datastore's NOW(), in whole seconds
    last,            \* the last call made and what it returned
    calls            \* number of calls made so far

wallet_vars == <<mode, balance_usdc, total_spent, payment_count, payments, rand_draws>>
memory_vars == <<market_data, payment_log, strategy_log, agent_state, clock>>
vars == <<mode, balance_usdc, total_spent, payment_count, payments, rand_draws,
          market_data, payment_log, strategy_log, agent_state, clock, last, calls>>

-----------------------------------------------------------------------------
(* Bounds and input sets *)

\* number of calls a behaviour of Spec makes
MaxCalls == 2
\* number of calls a behaviour of SpecFixedPrice makes
MaxFixedCalls == 5
MaxAgentCalls == 2
\* number of calls a behaviour of SpecStore makes, and the seconds that pass
MaxStoreCalls == 3
MaxClock == 1
\* number of calls a behaviour of SpecRestart makes
MaxRestartCalls == 4
\* number of calls a behaviour of SpecRules makes
MaxRuleCalls == 1
\* calls made at one fixed cost
MaxSameCalls == 4

\* X402Client.__init__: self.balance_usdc = 10.00
InitialBalance == 1000000
\* MarketAgent.fetch_and_store: cost_usdc=0.01 (also the default of request)
DataCost == 1000

\* cost_usdc values passed to request: -0.01, 0.005, 0.01, 9.995
Costs == {0 - 1000, 500, 1000, 999500}

\* the costs a caller repeats: 3.00, 4.00 and 9.995 fit 3, 2 and 1 times in 10.00
FixedCosts == {300000, 400000, 999500}
\* mode values: "simulation" stands for every mode other than live and auto
Modes == {"live", "auto", "simulation"}
\* endpoints as fetch_and_store builds them from the token id
Tokens == {"ethereum", "bitcoin"}
LiveEndpointOf(token_id) ==
    IF token_id = "ethereum"
    THEN "https://pro-api.coingecko.com/api/v3/x402/simple/price?ids=ethereum"
    ELSE "https://pro-api.coingecko.com/api/v3/x402/simple/price?ids=bitcoin"
SimEndpointOf(token_id) ==
    IF token_id = "ethereum"
    THEN "coingecko.com/api/v3/coins/ethereum"
    ELSE "coingecko.com/api/v3/coins/bitcoin"
HttpEndpoint == LiveEndpointOf("ethereum")
SimEndpoint == SimEndpointOf("ethereum")
\* endpoints a caller of request passes
Endpoints == {HttpEndpoint, SimEndpoint}

RandBytes(k) == [src |-> "random", n |-> k]
FromServer(k) == [src |-> "server", n |-> k]
\* txHash values a server puts in its settlement confirmation
ServerTxHashes == {FromServer(1)}
\* payTo of the server's payment requirements
ServerPayTo == FromServer(2)
\* maxAmountRequired of the server's payment requirements: the data price
ServerPrice == DataCost

-----------------------------------------------------------------------------
(* The remote server, as seen by one live request.                          *)
(*   first       "exc" (transport failure) or the status of the first GET   *)
(*   hdr         the payment requirements of a 402:                          *)
(*                 "dict"   PAYMENT-REQUIRED header, base64 JSON object      *)
(*                 "list"   PAYMENT-REQUIRED header, base64 JSON list        *)
(*                 "invalid" header that is not base64 / not JSON            *)
(*                 "v1"     no header, body with x402Version = 1             *)
(*                 "other"  no header, JSON body that is not V1              *)
(*                 "nobody" no header, body that is not JSON                 *)
(*   maxAmount   maxAmountRequired of the requirements                       *)
(*   second      "exc" or the status of the signed resend                    *)
(*   settle      the settlement header of a 200:                             *)
(*                 "absent", "garbled" (not base64/JSON), "hash" (object     *)
(*                 with txHash), "nohash" (object without txHash),           *)
(*                 "nondict" (JSON that is not an object)                    *)
(*   txHash      the txHash of a "hash" settlement                           *)
(*   body        the body of the final 200 response                          *)

\* a payload: usd is a price in thousandths of a dollar; change and
\* volatility are in hundredths (of a dollar in a CoinGecko answer, of a
\* percent otherwise); fgi is in index points
Body(kind, usd, change, volatility, fgi) ==
    [kind |-> kind, usd |-> usd, change |-> change, volatility |-> volatility, fgi |-> fgi]
NoBody == Body("none", 0, 0, 0, 0)
\* resp.json() of a live endpoint
LiveBodies == {Body("json", 2650125, 150, 0, 0)}
\* what _generate_market_data can return (a calm and a turbulent sample)
GeneratedData ==
    {Body("market", 2650000, 50, 150, 50), Body("market", 2650000, 0 - 400, 500, 20)}

NoHash == FromServer(0)

SignableHdrs == {"dict", "list", "v1"}
UnusableHdrs == {"other", "nobody"}
RejectStatuses == {"402", "500"}

Script(f, h, ma, s, st, tx, body) ==
    [first |-> f, hdr |-> h, maxAmount |-> ma, second |-> s, settle |-> st,
     txHash |-> tx, body |-> body]

\* every outcome of the exchange for the object form of the requirements;
\* the list and V1 forms lead to the same requirements and are followed to
\* a settled payment
ServerScripts ==
    {Script(f, "-", 0, "-", "-", NoHash, NoBody) : f \in {"exc", "500"}}
    \cup {Script("200", "-", 0, "-", "-", NoHash, b) : b \in LiveBodies}
    \cup {Script("402", h, 0, "-", "-", NoHash, NoBody) : h \in UnusableHdrs \cup {"invalid"}}
    \cup {Script("402", "dict", ServerPrice, s, "-", NoHash, NoBody) :
             s \in {"exc"} \cup RejectStatuses}
    \cup {Script("402", "dict", ServerPrice, "200", "nondict", NoHash, NoBody)}
    \cup {Script("402", "dict", ServerPrice, "200", st, NoHash, b) :
             st \in {"absent", "garbled", "nohash"}, b \in LiveBodies}
    \cup {Script("402", h, ServerPrice, "200", "hash", tx, b) :
             h \in SignableHdrs, tx \in ServerTxHashes, b \in LiveBodies}

\* the simulated path draws only the generated market data
SimScripts == {Script("-", "-", 0, "-", "-", NoHash, g) : g \in GeneratedData}

StatusCode(s) ==
    CASE s = "200" -> 200
      [] s = "402" -> 402
      [] s = "500" -> 500
      [] OTHER -> 0

-----------------------------------------------------------------------------
(* Data classes *)

NoSettlement == [kind |-> "None", txHash |-> NoHash, hasTxHash |-> FALSE]
SettlementDict(tx, has) == [kind |-> "dict", txHash |-> tx, hasTxHash |-> has]

PaymentReceipt(tx_id, amount_usdc, payer, payee, network, endpoint, settlement) ==
    [tx_id |-> tx_id, amount_usdc |-> amount_usdc, payer |-> payer, payee |-> payee,
     network |-> network, endpoint |-> endpoint, timestamp |-> "utcnow",
     status |-> "confirmed", gas_fee |-> 0, settlement_response |-> settlement]

\* payment is the empty sequence for None, <<receipt>> otherwise
X402Response(status_code, data, payment, paid) ==
    [status_code |-> status_code, data |-> data, payment |-> payment, paid |-> paid]

ErrorData(msg, required, balance) ==
    [error |-> msg, required |-> required, balance |-> balance, body |-> NoBody]
BodyData(body) ==
    [error |-> "", required |-> 0, balance |-> 0, body |-> body]

WalletAddress == [src |-> "wallet", n |-> 0]

\* the client's mutable fields as one record
Wallet(b, t, c, p, r) ==
    [balance_usdc |-> b, total_spent |-> t, payment_count |-> c, payments |-> p,
     rand_draws |-> r]

\* what a call gives back: the client afterwards, the response or the
\* exception that left the call, and the wire events in order
Returned(w, resp, wire) == [w |-> w, raised |-> "", resp |-> resp, wire |-> wire]
Raised(w, exc, wire) ==
    [w |-> w, raised |-> exc,
     resp |-> X402Response(0, ErrorData(exc, 0, 0), <<>>, FALSE), wire |-> wire]

-----------------------------------------------------------------------------
(* EvmSigner *)

\* EvmSigner._sign_simulated / _sign_real: the payment payload binds payer,
\* payee and the amount the requirements ask for
sign_payment(payment_requirements) ==
    [scheme |-> "exact",
     payload |-> [from |-> WalletAddress,
                  to |-> payment_requirements.payTo,
                  value |-> payment_requirements.maxAmountRequired]]

-----------------------------------------------------------------------------
(* X402Client *)

\* faulty variant: the payment counter is not incremented
_record_payment_nocount(w, endpoint, cost_usdc, tx_id, payee, settlement) ==
    LET receipt == PaymentReceipt(tx_id, cost_usdc, WalletAddress, payee, "base",
                                  endpoint, settlement)
    IN [w |-> Wallet(w.balance_usdc - cost_usdc,
                     w.total_spent + cost_usdc,
                     w.payment_count,
                     Append(w.payments, receipt),
                     w.rand_draws),
        receipt |-> receipt]

\* faulty variant: total_spent is overwritten, not accumulated
_record_payment_lastspent(w, endpoint, cost_usdc, tx_id, payee, settlement) ==
    LET receipt == PaymentReceipt(tx_id, cost_usdc, WalletAddress, payee, "base",
                                  endpoint, settlement)
    IN [w |-> Wallet(w.balance_usdc - cost_usdc,
                     cost_usdc,
                     w.payment_count + 1,
                     Append(w.payments, receipt),
                     w.rand_draws),
        receipt |-> receipt]

\* faulty variant: the balance is not debited
_record_payment_nodebit(w, endpoint, cost_usdc, tx_id, payee, settlement) ==
    LET receipt == PaymentReceipt(tx_id, cost_usdc, WalletAddress, payee, "base",
                                  endpoint, settlement)
    IN [w |-> Wallet(w.balance_usdc,
                     w.total_spent + cost_usdc,
                     w.payment_count + 1,
                     Append(w.payments, receipt),
                     w.rand_draws),
        receipt |-> receipt]

_record_payment(w, endpoint, cost_usdc, tx_id, payee, settlement) ==
    LET receipt == PaymentReceipt(tx_id, cost_usdc, WalletAddress, payee, "base",
                                  endpoint, settlement)
    IN [w |-> Wallet(w.balance_usdc - cost_usdc,
                     w.total_spent + cost_usdc,
                     w.payment_count + 1,
                     Append(w.payments, receipt),
                     w.rand_draws),
        receipt |-> receipt]

\* faulty variant: any positive balance is taken to be enough
_request_simulated_offbyone(w, endpoint, cost_usdc, srv) ==
    IF w.balance_usdc <= 0
    THEN Returned(w,
                  X402Response(402,
                               ErrorData("Insufficient USDC balance", cost_usdc, w.balance_usdc),
                               <<>>, FALSE),
                  <<>>)
    ELSE LET payee == RandBytes(w.rand_draws + 1)
             tx_id == RandBytes(w.rand_draws + 2)
             drawn == [w EXCEPT !.rand_draws = w.rand_draws + 2]
             rec == _record_payment(drawn, endpoint, cost_usdc, tx_id, payee,
                                    SettlementDict(tx_id, TRUE))
         IN Returned(rec.w,
                     X402Response(200, BodyData(srv.body), <<rec.receipt>>, TRUE),
                     <<"record">>)

\* faulty variant: the payment is recorded but the receipt is not attached to
\* the response
_request_simulated_detached(w, endpoint, cost_usdc, srv) ==
    IF w.balance_usdc < cost_usdc
    THEN Returned(w,
                  X402Response(402,
                               ErrorData("Insufficient USDC balance", cost_usdc, w.balance_usdc),
                               <<>>, FALSE),
                  <<>>)
    ELSE LET payee == RandBytes(w.rand_draws + 1)
             tx_id == RandBytes(w.rand_draws + 2)
             drawn == [w EXCEPT !.rand_draws = w.rand_draws + 2]
             rec == _record_payment(drawn, endpoint, cost_usdc, tx_id, payee,
                                    SettlementDict(tx_id, TRUE))
         IN Returned(rec.w,
                     X402Response(200, BodyData(srv.body), <<>>, TRUE),
                     <<"record">>)

_request_simulated(w, endpoint, cost_usdc, srv) ==
    IF w.balance_usdc < cost_usdc
    THEN Returned(w,
                  X402Response(402,
                               ErrorData("Insufficient USDC balance", cost_usdc, w.balance_usdc),
                               <<>>, FALSE),
                  <<>>)
    ELSE LET payee == RandBytes(w.rand_draws + 1)
             payment_requirements == [payTo |-> payee, maxAmountRequired |-> cost_usdc]
             payment_payload == sign_payment(payment_requirements)
             tx_id == RandBytes(w.rand_draws + 2)
             settlement == SettlementDict(tx_id, TRUE)
             drawn == [w EXCEPT !.rand_draws = w.rand_draws + 2]
             rec == _record_payment(drawn, endpoint, cost_usdc, tx_id, payee, settlement)
         IN Returned(rec.w,
                     X402Response(200, BodyData(srv.body), <<rec.receipt>>, TRUE),
                     <<"record">>)

\* the settlement confirmation parsed from the PAYMENT-RESPONSE header
ParseSettlement(srv) ==
    CASE srv.settle = "hash" -> SettlementDict(srv.txHash, TRUE)
      [] srv.settle = "nohash" -> SettlementDict(NoHash, FALSE)
      [] OTHER -> NoSettlement

\* _request_live, the 402 branch up to the requirements: "return" gives the
\* 402 error response back, "raise" leaves with the decoder's exception,
\* "sign" goes on with the requirements
parse_requirements_lenient(srv) ==
    IF srv.hdr = "invalid" THEN "raise" ELSE "sign"

parse_requirements(srv) ==
    IF srv.hdr \in UnusableHdrs THEN "return"
    ELSE IF srv.hdr = "invalid" THEN "raise"
    ELSE "sign"

\* _request_live, the signed resend answered 200
_live_paid(w, url, cost_usdc, srv, payment_payload, sent) ==
    IF srv.settle = "nondict"
    THEN Raised(w, "AttributeError", Append(sent, "200"))
    ELSE LET settlement == ParseSettlement(srv)
             random_id == settlement.kind = "None" \/ ~settlement.hasTxHash
             tx_id == IF random_id THEN RandBytes(w.rand_draws + 1)
                      ELSE settlement.txHash
             drawn == IF random_id
                      THEN [w EXCEPT !.rand_draws = w.rand_draws + 1]
                      ELSE w
             rec == _record_payment(drawn, url, cost_usdc, tx_id,
                                    payment_payload.payload.to, settlement)
         IN Returned(rec.w,
                     X402Response(200, BodyData(srv.body), <<rec.receipt>>, TRUE),
                     sent \o <<"200", "record">>)

\* faulty variant: the payment is recorded before the resend is answered
_live_resend_optimistic(w, url, cost_usdc, srv) ==
    LET payment_payload ==
            sign_payment([payTo |-> ServerPayTo, maxAmountRequired |-> srv.maxAmount])
        sent == <<"GET", "402", "GET+PAYMENT-SIGNATURE">>
        rec == _record_payment(w, url, cost_usdc, RandBytes(w.rand_draws + 1),
                               payment_payload.payload.to, NoSettlement)
    IN IF srv.second = "exc"
       THEN Returned(rec.w,
                     X402Response(0, ErrorData("Request failed", 0, 0), <<>>, FALSE), sent)
       ELSE IF srv.second = "200"
       THEN _live_paid(w, url, cost_usdc, srv, payment_payload, sent)
       ELSE Returned(w,
                     X402Response(StatusCode(srv.second),
                                  ErrorData("Payment rejected", 0, 0), <<>>, FALSE),
                     Append(sent, srv.second))

\* faulty variant: every answer to the resend counts as settled
_live_resend_anystatus(w, url, cost_usdc, srv) ==
    LET payment_payload ==
            sign_payment([payTo |-> ServerPayTo, maxAmountRequired |-> srv.maxAmount])
        sent == <<"GET", "402", "GET+PAYMENT-SIGNATURE">>
    IN IF srv.second = "exc"
       THEN Returned(w, X402Response(0, ErrorData("Request failed", 0, 0), <<>>, FALSE), sent)
       ELSE _live_paid(w, url, cost_usdc, [srv EXCEPT !.settle = "absent"],
                       payment_payload, sent)

\* faulty variant: a rejected resend is sent a second time
_live_resend_retry(w, url, cost_usdc, srv) ==
    LET payment_payload ==
            sign_payment([payTo |-> ServerPayTo, maxAmountRequired |-> srv.maxAmount])
        sent == <<"GET", "402", "GET+PAYMENT-SIGNATURE">>
    IN IF srv.second = "exc"
       THEN Returned(w, X402Response(0, ErrorData("Request failed", 0, 0), <<>>, FALSE), sent)
       ELSE IF srv.second = "200"
       THEN _live_paid(w, url, cost_usdc, srv, payment_payload, sent)
       ELSE Returned(w,
                     X402Response(StatusCode(srv.second),
                                  ErrorData("Payment rejected", 0, 0), <<>>, FALSE),
                     sent \o <<srv.second, "GET+PAYMENT-SIGNATURE", srv.second>>)

\* _request_live, from signing the requirements to the answer of the resend
_live_resend(w, url, cost_usdc, srv) ==
    LET payment_requirements == [payTo |-> ServerPayTo, maxAmountRequired |-> srv.maxAmount]
        payment_payload == sign_payment(payment_requirements)
        sent == <<"GET", "402", "GET+PAYMENT-SIGNATURE">>
    IN IF srv.second = "exc"
       THEN Returned(w, X402Response(0, ErrorData("Request failed", 0, 0), <<>>, FALSE), sent)
       ELSE IF srv.second = "200"
       THEN _live_paid(w, url, cost_usdc, srv, payment_payload, sent)
       ELSE Returned(w,
                     X402Response(StatusCode(srv.second),
                                  ErrorData("Payment rejected", 0, 0), <<>>, FALSE),
                     Append(sent, srv.second))

_request_live(w, url, cost_usdc, srv) ==
    IF srv.first = "exc"
    THEN Returned(w, X402Response(0, ErrorData("Request failed", 0, 0), <<>>, FALSE),
                  <<"GET">>)
    ELSE IF srv.first = "402"
    THEN CASE parse_requirements(srv) = "return" ->
                Returned(w,
                         X402Response(402,
                                      ErrorData("No payment requirements in response", 0, 0),
                                      <<>>, FALSE),
                         <<"GET", "402">>)
           [] parse_requirements(srv) = "raise" ->
                Raised(w, "ValueError", <<"GET", "402">>)
           [] OTHER -> _live_resend(w, url, cost_usdc, srv)
    ELSE IF srv.first = "200"
    THEN Returned(w, X402Response(200, BodyData(srv.body), <<>>, FALSE), <<"GET", "200">>)
    ELSE Returned(w,
                  X402Response(StatusCode(srv.first), ErrorData("HTTP error", 0, 0), <<>>, FALSE),
                  <<"GET", srv.first>>)

startswith_http(endpoint) == endpoint \in {LiveEndpointOf(t) : t \in Tokens}

\* which implementation request dispatches to
is_live_call(m, endpoint) ==
    m = "live" \/ (m = "auto" /\ startswith_http(endpoint))

\* faulty variant: mode 'auto' always takes the live path
request_autolive(w, m, endpoint, cost_usdc, srv) ==
    IF m \in {"live", "auto"}
    THEN _request_live(w, endpoint, cost_usdc, srv)
    ELSE _request_simulated(w, endpoint, cost_usdc, srv)

request(w, m, endpoint, cost_usdc, srv) ==
    IF is_live_call(m, endpoint)
    THEN _request_live(w, endpoint, cost_usdc, srv)
    ELSE _request_simulated(w, endpoint, cost_usdc, srv)

\* what the environment can do during one call of request
Environments(m, endpoint) ==
    IF is_live_call(m, endpoint) THEN ServerScripts ELSE SimScripts

-----------------------------------------------------------------------------
(* AgentMemory: tables are sequences of rows in insertion order *)

AgentId == "market-agent-01"

\* a DECIMAL column that may be NULL: <<>> is NULL, <<v>> the value v
Null == <<>>

\* faulty variant: an existing row is replaced by a fresh one (REPLACE INTO)
register_agent_replace(table, agent_id, agent_type, wallet_address, config) ==
    LET fresh == [agent_id |-> agent_id, agent_type |-> agent_type, status |-> "active",
                  wallet_address |-> wallet_address, balance_usdc |-> <<>>,
                  total_spent_usdc |-> <<0>>, tasks_completed |-> 0,
                  config |-> config, heartbeat |-> 0]
    IN IF \E i \in 1..Len(table) : table[i].agent_id = agent_id
       THEN [i \in 1..Len(table) |->
                IF table[i].agent_id = agent_id THEN fresh ELSE table[i]]
       ELSE Append(table, fresh)

\* INSERT ... ON DUPLICATE KEY UPDATE status = 'active', last_heartbeat = NOW()
\* heartbeat counts the times the row was touched
register_agent(table, agent_id, agent_type, wallet_address, config) ==
    IF \E i \in 1..Len(table) : table[i].agent_id = agent_id
    THEN [i \in 1..Len(table) |->
             IF table[i].agent_id = agent_id
             THEN [table[i] EXCEPT !.status = "active", !.heartbeat = @ + 1]
             ELSE table[i]]
    ELSE Append(table,
                [agent_id |-> agent_id, agent_type |-> agent_type, status |-> "active",
                 wallet_address |-> wallet_address, balance_usdc |-> Null,
                 total_spent_usdc |-> <<0>>, tasks_completed |-> 0,
                 config |-> config, heartbeat |-> 0])


Memory(md, pl, sl, st, now) ==
    [market_data |-> md, payment_log |-> pl, strategy_log |-> sl, agent_state |-> st,
     now |-> now]

\* Python round(x / d) and round(x, 4): ties go to the even neighbour
RoundHalfEven(n, d) ==
    LET q == n \div d
        r == n % d
    IN IF 2 * r < d THEN q
       ELSE IF 2 * r > d THEN q + 1
       ELSE IF q % 2 = 0 THEN q ELSE q + 1

\* a value stored in a DECIMAL column: ties go away from zero
RoundHalfAway(n, d) ==
    IF n >= 0 THEN (2 * n + d) \div (2 * d)
    ELSE 0 - ((2 * (0 - n) + d) \div (2 * d))

\* DECIMAL(10, 4) in units of 0.00001
Decimal4(x) == RoundHalfAway(x, 10) * 10

\* DECIMAL(20, 2) in thousandths
Decimal2(x) == RoundHalfAway(x, 10) * 10

\* PaymentReceipt.to_dict: a settlement_response of None is dropped
to_dict(receipt) ==
    IF receipt.settlement_response.kind = "None"
    THEN [f \in DOMAIN receipt \ {"settlement_response"} |-> receipt[f]]
    ELSE receipt

\* faulty variant: the token's newest row is replaced instead of a row added
store_market_data_upsert(mem, token_id, data) ==
    LET row == [id |-> Len(mem.market_data) + 1, token_id |-> token_id,
                price_usd |-> Decimal2(data.usd),
                change_24h_pct |-> data.change, volatility_24h |-> data.volatility,
                fear_greed_index |-> data.fgi, fetched_at |-> mem.now]
        present == {i \in 1..Len(mem.market_data) : mem.market_data[i].token_id = token_id}
    IN IF present = {}
       THEN [mem EXCEPT !.market_data = Append(@, row)]
       ELSE LET k == CHOOSE i \in present : \A j \in present : j <= i
            IN [mem EXCEPT !.market_data[k] = [row EXCEPT !.id = k]]

\* the row gets the next AUTO_INCREMENT id and fetched_at = CURRENT_TIMESTAMP;
\* price_usd is a DECIMAL(20, 2) column
store_market_data(mem, token_id, data) ==
    [mem EXCEPT !.market_data =
        Append(@, [id |-> Len(mem.market_data) + 1, token_id |-> token_id,
                   price_usd |-> Decimal2(data.usd),
                   change_24h_pct |-> data.change, volatility_24h |-> data.volatility,
                   fear_greed_index |-> data.fgi, fetched_at |-> mem.now])]

\* payment_log.tx_id is UNIQUE: a second row with the same tx_id is refused
log_payment(mem, receipt) ==
    LET r == to_dict(receipt)
    IN IF \E i \in 1..Len(mem.payment_log) : mem.payment_log[i].tx_id = r.tx_id
       THEN [mem |-> mem, raised |-> "IntegrityError"]
       ELSE [mem |-> [mem EXCEPT !.payment_log =
                         Append(@, [tx_id |-> r.tx_id, amount_usdc |-> Decimal4(r.amount_usdc),
                                    payer |-> r.payer, payee |-> r.payee,
                                    network |-> r.network, endpoint |-> r.endpoint,
                                    status |-> r.status, gas_fee |-> r.gas_fee])],
             raised |-> ""]

log_strategy(mem, agent_id, action_type, token_id, signal_name, decision, confidence) ==
    [mem EXCEPT !.strategy_log =
        Append(@, [agent_id |-> agent_id, action_type |-> action_type,
                   token_id |-> token_id, signal_name |-> signal_name,
                   decision |-> decision, confidence |-> confidence])]

\* UPDATE agent_state SET ... WHERE agent_id = %s
update_agent_spending(mem, agent_id, balance, spent) ==
    LET table == mem.agent_state
    IN [mem EXCEPT !.agent_state =
           [i \in 1..Len(table) |->
               IF table[i].agent_id = agent_id
               THEN [table[i] EXCEPT !.balance_usdc = <<Decimal4(balance)>>,
                                     !.total_spent_usdc = <<Decimal4(spent)>>,
                                     !.heartbeat = @ + 1]
               ELSE table[i]]]

\* SELECT ... WHERE token_id = %s ORDER BY fetched_at DESC LIMIT %s: the
\* results the query can give. Rows with equal fetched_at come in any order.
\* id is not a column of the result; it is kept to tell the rows apart.
get_price_history(mem, token_id, limit) ==
    LET rows == mem.market_data
        match == {i \in 1..Len(rows) : rows[i].token_id = token_id}
        n == Cardinality(match)
        k == IF limit < n THEN limit ELSE n
        orders == {p \in [1..n -> match] :
                      /\ \A a, b \in 1..n : a # b => p[a] # p[b]
                      /\ \A a, b \in 1..n :
                            a < b => rows[p[a]].fetched_at >= rows[p[b]].fetched_at}
    IN {[j \in 1..k |->
            [id |-> rows[p[j]].id, token_id |-> rows[p[j]].token_id,
             price_usd |-> rows[p[j]].price_usd,
             change_24h_pct |-> rows[p[j]].change_24h_pct,
             volatility_24h |-> rows[p[j]].volatility_24h,
             fear_greed_index |-> rows[p[j]].fear_greed_index,
             fetched_at |-> rows[p[j]].fetched_at]] : p \in orders}

-----------------------------------------------------------------------------
(* MarketAgent *)

\* MarketAgent.fetch_and_store reads wallet.is_live, which x402_client.py
\* does not define: the variant chosen when the client was constructed
is_live(m) == m = "live"

\* the endpoint fetch_and_store asks for
AgentEndpoint(m, token_id) ==
    IF is_live(m) THEN LiveEndpointOf(token_id) ELSE SimEndpointOf(token_id)

\* round(self.balance_usdc, 4), round(self.total_spent, 4)
get_wallet_status(w) ==
    [balance_usdc |-> RoundHalfEven(w.balance_usdc, 10) * 10,
     total_spent_usdc |-> RoundHalfEven(w.total_spent, 10) * 10,
     payment_count |-> w.payment_count]

Abs(x) == IF x < 0 THEN 0 - x ELSE x

\* raw is the token's entry of the CoinGecko answer; fgi is the index that
\* random.randint(20, 80) draws
_normalize_coingecko_response(token_id, raw, fgi) ==
    Body("market",
         RoundHalfEven(raw.usd, 10) * 10,
         IF raw.usd # 0 THEN RoundHalfEven(raw.change * 100000, raw.usd) ELSE 0,
         IF raw.usd # 0 THEN RoundHalfEven(Abs(raw.change) * 150000, raw.usd) ELSE 0,
         fgi)

\* what fetch_and_store gives back: the client and the store afterwards, the
\* exception that left it, and the returned dict (error: it has an "error" key)
Fetched(w, mem, raised, error, body, resp) ==
    [w |-> w, mem |-> mem, raised |-> raised, error |-> error, body |-> body, resp |-> resp]

\* faulty variant: an unpaid response is logged as a failure but its data is
\* stored and returned like a paid one
fetch_and_store_keepgoing(w, mem, m, agent_id, token_id, env) ==
    LET r == request(w, m, AgentEndpoint(m, token_id), DataCost, env.srv)
        failed == log_strategy(mem, agent_id, "observation", token_id, "",
                               "FAILED: Insufficient balance for data purchase", 100)
    IN IF r.raised # ""
       THEN Fetched(r.w, mem, r.raised, FALSE, NoBody, r.resp)
       ELSE IF ~r.resp.paid
       THEN Fetched(r.w, store_market_data(failed, token_id, r.resp.data.body),
                    "", FALSE, r.resp.data.body, r.resp)
       ELSE LET data == IF is_live(m)
                        THEN _normalize_coingecko_response(token_id, r.resp.data.body, env.fgi)
                        ELSE r.resp.data.body
                stored == store_market_data(mem, token_id, data)
                logged == log_payment(stored, r.resp.payment[1])
                wallet_status == get_wallet_status(r.w)
            IN IF logged.raised # ""
               THEN Fetched(r.w, stored, logged.raised, FALSE, NoBody, r.resp)
               ELSE Fetched(r.w,
                            update_agent_spending(logged.mem, agent_id,
                                                  wallet_status.balance_usdc,
                                                  wallet_status.total_spent_usdc),
                            "", FALSE, data, r.resp)

fetch_and_store(w, mem, m, agent_id, token_id, env) ==
    LET r == request(w, m, AgentEndpoint(m, token_id), DataCost, env.srv)
    IN IF r.raised # ""
       THEN Fetched(r.w, mem, r.raised, FALSE, NoBody, r.resp)
       ELSE IF ~r.resp.paid
       THEN Fetched(r.w,
                    log_strategy(mem, agent_id, "observation", token_id, "",
                                 "FAILED: Insufficient balance for data purchase", 100),
                    "", TRUE, NoBody, r.resp)
       ELSE LET data == IF is_live(m)
                        THEN _normalize_coingecko_response(token_id, r.resp.data.body, env.fgi)
                        ELSE r.resp.data.body
                stored == store_market_data(mem, token_id, data)
                logged == log_payment(stored, r.resp.payment[1])
                wallet_status == get_wallet_status(r.w)
            IN IF logged.raised # ""
               THEN Fetched(r.w, stored, logged.raised, FALSE, NoBody, r.resp)
               ELSE Fetched(r.w,
                            update_agent_spending(logged.mem, agent_id,
                                                  wallet_status.balance_usdc,
                                                  wallet_status.total_spent_usdc),
                            "", FALSE, data, r.resp)

\* thresholds of the rules: 4.0 and 3.0 percent in hundredths, index 25 and 75
VolatilityThreshold == 400
ChangeThreshold == 300
FearLow == 25
GreedHigh == 75

\* faulty variant: the thresholds of rules 1 and 2 are inclusive
analyze_and_decide_inclusive(mem, agent_id, token_id, data) ==
    LET rule1 == data.volatility # 0 /\ data.volatility >= VolatilityThreshold
        rule2 == Abs(data.change) >= ChangeThreshold
        rule3 == data.fgi # 0 /\ (data.fgi < FearLow \/ data.fgi > GreedHigh)
        m1 == IF rule1
              THEN log_strategy(mem, agent_id, "alert", token_id, "volatility_24h",
                                "HIGH VOLATILITY ALERT", 85)
              ELSE mem
        d1 == IF rule1 THEN <<"HIGH VOLATILITY ALERT">> ELSE <<>>
        m2 == IF rule2
              THEN log_strategy(m1, agent_id, "alert", token_id, "price_change_24h",
                                IF data.change > 0 THEN "UP" ELSE "DOWN", 90)
              ELSE m1
        d2 == IF rule2 THEN Append(d1, IF data.change > 0 THEN "UP" ELSE "DOWN") ELSE d1
        m3 == IF rule3
              THEN log_strategy(m2, agent_id, "recommendation", token_id, "fear_greed_index",
                                IF data.fgi < FearLow THEN "EXTREME FEAR" ELSE "EXTREME GREED",
                                70)
              ELSE m2
        d3 == IF rule3
              THEN Append(d2, IF data.fgi < FearLow THEN "EXTREME FEAR" ELSE "EXTREME GREED")
              ELSE d2
    IN IF d3 = <<>>
       THEN [mem |-> log_strategy(m3, agent_id, "observation", token_id, "routine_check",
                                  "NORMAL", 95),
             decisions |-> <<"NORMAL">>]
       ELSE [mem |-> m3, decisions |-> d3]

analyze_and_decide(mem, agent_id, token_id, data) ==
    LET rule1 == data.volatility # 0 /\ data.volatility > VolatilityThreshold
        rule2 == Abs(data.change) > ChangeThreshold
        rule3 == data.fgi # 0 /\ (data.fgi < FearLow \/ data.fgi > GreedHigh)
        m1 == IF rule1
              THEN log_strategy(mem, agent_id, "alert", token_id, "volatility_24h",
                                "HIGH VOLATILITY ALERT", 85)
              ELSE mem
        d1 == IF rule1 THEN <<"HIGH VOLATILITY ALERT">> ELSE <<>>
        m2 == IF rule2
              THEN log_strategy(m1, agent_id, "alert", token_id, "price_change_24h",
                                IF data.change > 0 THEN "UP" ELSE "DOWN", 90)
              ELSE m1
        d2 == IF rule2 THEN Append(d1, IF data.change > 0 THEN "UP" ELSE "DOWN") ELSE d1
        m3 == IF rule3
              THEN log_strategy(m2, agent_id, "recommendation", token_id, "fear_greed_index",
                                IF data.fgi < FearLow THEN "EXTREME FEAR" ELSE "EXTREME GREED",
                                70)
              ELSE m2
        d3 == IF rule3
              THEN Append(d2, IF data.fgi < FearLow THEN "EXTREME FEAR" ELSE "EXTREME GREED")
              ELSE d2
    IN IF d3 = <<>>
       THEN [mem |-> log_strategy(m3, agent_id, "observation", token_id, "routine_check",
                                  "NORMAL", 95),
             decisions |-> <<"NORMAL">>]
       ELSE [mem |-> m3, decisions |-> d3]

\* run_cycle from token i on; requested counts the tokens whose fetch began
RECURSIVE cycle_from(_, _, _, _, _, _, _, _)
cycle_from(w, mem, m, agent_id, tokens, envs, i, all_decisions) ==
    IF i > Len(tokens)
    THEN [w |-> w, mem |-> mem, raised |-> "", decisions |-> all_decisions,
          requested |-> Len(tokens), wallet |-> get_wallet_status(w)]
    ELSE LET f == fetch_and_store(w, mem, m, agent_id, tokens[i], envs[i])
         IN IF f.raised # ""
            THEN [w |-> f.w, mem |-> f.mem, raised |-> f.raised,
                  decisions |-> all_decisions, requested |-> i,
                  wallet |-> get_wallet_status(f.w)]
            ELSE IF f.error
            THEN cycle_from(f.w, f.mem, m, agent_id, tokens, envs, i + 1, all_decisions)
            ELSE LET a == analyze_and_decide(f.mem, agent_id, tokens[i], f.body)
                 IN cycle_from(f.w, a.mem, m, agent_id, tokens, envs, i + 1,
                               all_decisions \o a.decisions)

run_cycle(w, mem, m, agent_id, tokens, envs) ==
    cycle_from(w, mem, m, agent_id, tokens, envs, 1, <<>>)

-----------------------------------------------------------------------------
(* State machine *)

NoScript == Script("-", "-", 0, "-", "-", NoHash, NoBody)

CurrentWallet == Wallet(balance_usdc, total_spent, payment_count, payments, rand_draws)

\* the state after AgentMemory, X402Client and MarketAgent are constructed
Init ==
    /\ mode \in Modes
    /\ balance_usdc = InitialBalance
    /\ total_spent = 0
    /\ payment_count = 0
    /\ payments = <<>>
    /\ rand_draws = 0
    /\ market_data = <<>>
    /\ payment_log = <<>>
    /\ strategy_log = <<>>
    /\ agent_state = register_agent(<<>>, AgentId, "market_monitor", WalletAddress, "config")
    /\ clock = 0
    /\ last = [op |-> "init", live |-> FALSE, endpoint |-> SimEndpoint, cost |-> 0,
               srv |-> NoScript, pre |-> Wallet(InitialBalance, 0, 0, <<>>, 0),
               raised |-> "", resp |-> X402Response(0, ErrorData("", 0, 0), <<>>, FALSE),
               wire |-> <<>>, after |-> ""]
    /\ calls = 0

SetWallet(w) ==
    /\ balance_usdc' = w.balance_usdc
    /\ total_spent' = w.total_spent
    /\ payment_count' = w.payment_count
    /\ payments' = w.payments
    /\ rand_draws' = w.rand_draws
    /\ mode' = mode

\* the call l was a live request answered 402 with malformed requirements
MalformedRequirements(l) ==
    /\ l.op = "request"
    /\ l.live
    /\ l.srv.first = "402"
    /\ l.srv.hdr \in UnusableHdrs \cup {"invalid"}

\* one call of X402Client.request(endpoint, cost_usdc)
DoRequest(endpoint, cost_usdc, srv) ==
    \E r \in {request(CurrentWallet, mode, endpoint, cost_usdc, srv)} :
       /\ SetWallet(r.w)
       /\ last' = [op |-> "request", live |-> is_live_call(mode, endpoint),
                   endpoint |-> endpoint, cost |-> cost_usdc,
                   srv |-> srv,
                   pre |-> CurrentWallet, raised |-> r.raised, resp |-> r.resp,
                   wire |-> r.wire,
                   after |-> IF MalformedRequirements(last) THEN
                                 (IF last.raised = "" THEN "402" ELSE last.raised)
                             ELSE ""]
       /\ calls' = calls + 1
       /\ UNCHANGED memory_vars

\* a caller passes any endpoint and any cost
Request ==
    /\ calls < MaxCalls
    /\ \E endpoint \in Endpoints, cost_usdc \in Costs :
          \E srv \in Environments(mode, endpoint) :
             DoRequest(endpoint, cost_usdc, srv)

\* a caller buys data the way the agent does: its endpoint, at the data price
RequestData ==
    /\ calls < MaxFixedCalls
    /\ \E srv \in Environments(mode, AgentEndpoint(mode, "ethereum")) :
          DoRequest(AgentEndpoint(mode, "ethereum"), DataCost, srv)

CurrentMemory == Memory(market_data, payment_log, strategy_log, agent_state, clock)

SetMemory(mem) ==
    /\ market_data' = mem.market_data
    /\ payment_log' = mem.payment_log
    /\ strategy_log' = mem.strategy_log
    /\ agent_state' = mem.agent_state
    /\ clock' = mem.now

\* the token lists a cycle is run over
TokenLists == {<<>>, <<"ethereum">>, <<"ethereum", "bitcoin">>}

\* the values random.randint(20, 80) is drawn from here
FgiDraws == {20, 50}

\* what the provider does during a cycle: every kind of failure, and success
\* with and without a settlement transaction hash
CycleScripts ==
    {srv \in ServerScripts :
        \/ srv.first \in {"exc", "200"}
        \/ srv.first = "402" /\ srv.hdr \in {"invalid", "nobody"}
        \/ srv.first = "402" /\ srv.hdr = "dict" /\ srv.second = "402"
        \/ srv.first = "402" /\ srv.hdr = "dict" /\ srv.second = "200"
              /\ srv.settle \in {"absent", "hash"}}

CycleEnvs(m) ==
    IF is_live(m)
    THEN {[srv |-> srv, fgi |-> 50] : srv \in {c \in CycleScripts : c.second # "200"}}
         \cup {[srv |-> srv, fgi |-> fgi] :
                  srv \in {c \in CycleScripts : c.second = "200"}, fgi \in FgiDraws}
    ELSE {[srv |-> srv, fgi |-> 50] : srv \in SimScripts}

\* one call of MarketAgent.run_cycle(tokens)
DoRunCycle(tokens, envs) ==
    \E c \in {run_cycle(CurrentWallet, CurrentMemory, mode, AgentId, tokens, envs)} :
       /\ SetWallet(c.w)
       /\ SetMemory(c.mem)
       /\ last' = [op |-> "run_cycle", live |-> is_live(mode), tokens |-> tokens,
                   envs |-> envs, pre |-> CurrentWallet, pre_mem |-> CurrentMemory,
                   raised |-> c.raised,
                   requested |-> c.requested, decisions |-> c.decisions]
       /\ calls' = calls + 1

RunCycle ==
    /\ calls < MaxAgentCalls
    /\ \E tokens \in TokenLists :
          \E envs \in [1..Len(tokens) -> CycleEnvs(mode)] :
             DoRunCycle(tokens, envs)

\* a caller spends nearly the whole balance on the agent's wallet
DrainCost == InitialBalance - 500

Drain ==
    /\ calls < MaxAgentCalls
    /\ \E env \in CycleEnvs(mode) :
          DoRequest(AgentEndpoint(mode, "ethereum"), DrainCost, env.srv)

\* agent ids: the demo's main agent and one of its phase 5 agents
AgentIds == {AgentId, "monitor-eth"}

\* what callers pass to register_agent: the main agent's own values or others
Registrations ==
    {[agent_type |-> "market_monitor", wallet_address |-> WalletAddress, config |-> "config"],
     [agent_type |-> "strategy_engine", wallet_address |-> [src |-> "wallet", n |-> 1],
      config |-> "other"]}

\* one call of AgentMemory.register_agent
RegisterAgent ==
    /\ calls < MaxStoreCalls
    /\ \E agent_id \in AgentIds, r \in Registrations :
          /\ agent_state' = register_agent(agent_state, agent_id, r.agent_type,
                                           r.wallet_address, r.config)
          /\ last' = [op |-> "register_agent", agent_id |-> agent_id, given |-> r,
                      pre |-> agent_state]
    /\ calls' = calls + 1
    /\ UNCHANGED <<wallet_vars, market_data, payment_log, strategy_log, clock>>

\* (balance, total spent) pairs passed to update_agent_spending: 9.98 / 0.02
\* and 9.99 / 0.01
Spendings == {[balance |-> 998000, spent |-> 2000], [balance |-> 999000, spent |-> 1000]}

\* one call of AgentMemory.update_agent_spending
UpdateAgentSpending ==
    /\ calls < MaxStoreCalls
    /\ \E agent_id \in AgentIds, s \in Spendings :
          /\ SetMemory(update_agent_spending(CurrentMemory, agent_id, s.balance, s.spent))
          /\ last' = [op |-> "update_agent_spending", agent_id |-> agent_id,
                      balance |-> s.balance, spent |-> s.spent, pre |-> agent_state]
    /\ calls' = calls + 1
    /\ UNCHANGED wallet_vars

\* observations passed to store_market_data: 2650.00 USD and 1.234 USD
Observations == {Body("market", 2650000, 50, 150, 50), Body("market", 1234, 0 - 400, 500, 20)}

\* one call of AgentMemory.store_market_data
StoreMarketData ==
    /\ calls < MaxStoreCalls
    /\ \E token_id \in Tokens, data \in Observations :
          /\ SetMemory(store_market_data(CurrentMemory, token_id, data))
          /\ last' = [op |-> "store_market_data", token_id |-> token_id,
                      price |-> data.usd, id |-> Len(market_data) + 1]
    /\ calls' = calls + 1
    /\ UNCHANGED wallet_vars

Limits == {1, 2}

\* one call of AgentMemory.get_price_history
GetPriceHistory ==
    /\ calls < MaxStoreCalls
    /\ \E token_id \in Tokens, limit \in Limits :
          \E result \in get_price_history(CurrentMemory, token_id, limit) :
             last' = [op |-> "get_price_history", token_id |-> token_id,
                      limit |-> limit, result |-> result]
    /\ calls' = calls + 1
    /\ UNCHANGED <<wallet_vars, market_data, payment_log, strategy_log, agent_state, clock>>

\* a second passes on the datastore's clock
Tick ==
    /\ clock < MaxClock
    /\ clock' = clock + 1
    /\ UNCHANGED <<wallet_vars, market_data, payment_log, strategy_log, agent_state,
                   last, calls>>

\* observations given to analyze_and_decide: values on both sides of every
\* threshold, in hundredths of a percent and in index points
Volatilities == {0, 100, 400, 401, 500}
Changes == {0 - 301, 0 - 300, 50, 100, 300, 301}
SentimentIndexes == {0, 24, 25, 50, 75, 76, 100}

\* one call of MarketAgent.analyze_and_decide(token_id, data)
AnalyzeAndDecide ==
    /\ calls < MaxRuleCalls
    /\ \E volatility \in Volatilities, change \in Changes, fgi \in SentimentIndexes :
          \E a \in {analyze_and_decide(CurrentMemory, AgentId, "ethereum",
                                       Body("market", 2650000, change, volatility, fgi))} :
             /\ SetMemory(a.mem)
             /\ last' = [op |-> "analyze_and_decide",
                         data |-> Body("market", 2650000, change, volatility, fgi),
                         pre_log |-> strategy_log, decisions |-> a.decisions]
    /\ calls' = calls + 1
    /\ UNCHANGED wallet_vars

\* one call of MarketAgent.fetch_and_store(token_id)
FetchAndStore ==
    /\ calls < MaxRestartCalls
    /\ \E env \in CycleEnvs(mode) :
          \E f \in {fetch_and_store(CurrentWallet, CurrentMemory, mode, AgentId,
                                    "ethereum", env)} :
             /\ SetWallet(f.w)
             /\ SetMemory(f.mem)
             /\ last' = [op |-> "fetch_and_store", env |-> env, pre |-> CurrentWallet,
                         pre_state |-> agent_state, pre_mem |-> CurrentMemory,
                         raised |-> f.raised,
                         error |-> f.error, paid |-> f.resp.paid]
    /\ calls' = calls + 1

\* the demo is run again on the same datastore: a new X402Client and a new
\* MarketAgent for the same agent id. The randomness source is not reset.
NewMarketAgent ==
    /\ calls < MaxRestartCalls
    /\ SetWallet(Wallet(InitialBalance, 0, 0, <<>>, rand_draws))
    /\ agent_state' = register_agent(agent_state, AgentId, "market_monitor",
                                     WalletAddress, "config")
    /\ last' = [op |-> "new_agent", pre |-> CurrentWallet, pre_state |-> agent_state]
    /\ calls' = calls + 1
    /\ UNCHANGED <<market_data, payment_log, strategy_log, clock>>

Next == Request

Spec == Init /\ [][Next]_vars

\* a caller repeats the request to the simulated endpoint, every time at the
\* cost of its first call
RequestSameCost ==
    /\ calls < MaxSameCalls
    /\ \E cost_usdc \in (IF last.op = "request" THEN {last.cost} ELSE FixedCosts) :
          \E srv \in Environments(mode, SimEndpoint) :
             DoRequest(SimEndpoint, cost_usdc, srv)

NextSameCost == RequestSameCost

SpecSameCost == Init /\ [][NextSameCost]_vars

NextFixedPrice == RequestData

SpecFixedPrice == Init /\ [][NextFixedPrice]_vars

NextStore ==
    RegisterAgent \/ UpdateAgentSpending \/ StoreMarketData \/ GetPriceHistory \/ Tick

SpecStore == Init /\ [][NextStore]_vars

NextRules == AnalyzeAndDecide

SpecRules == Init /\ [][NextRules]_vars

NextRestart == FetchAndStore \/ NewMarketAgent

SpecRestart == Init /\ [][NextRestart]_vars

NextFetch == FetchAndStore

SpecFetch == Init /\ [][NextFetch]_vars

NextAgent == RunCycle \/ Drain

SpecAgent == Init /\ [][NextAgent]_vars

-----------------------------------------------------------------------------
(* Properties of X402Client.request *)

LastRequest == last.op = "request"
LastSimulated == LastRequest /\ ~last.live
LastLive == LastRequest /\ last.live
WalletUnchanged == CurrentWallet = last.pre
NewestReceipt == payments[Len(payments)]
OneReceiptAppended ==
    /\ Len(payments) = Len(last.pre.payments) + 1
    /\ SubSeq(payments, 1, Len(last.pre.payments)) = last.pre.payments

\* C1: a simulated request made with balance >= cost takes exactly cost off
\* the balance, adds exactly cost to total_spent, adds 1 to payment_count,
\* appends one receipt and returns 200, paid, with that receipt
C1_SimulatedPaymentExact ==
    (LastSimulated /\ last.pre.balance_usdc >= last.cost) =>
        /\ last.raised = ""
        /\ balance_usdc = last.pre.balance_usdc - last.cost
        /\ total_spent = last.pre.total_spent + last.cost
        /\ payment_count = last.pre.payment_count + 1
        /\ OneReceiptAppended
        /\ NewestReceipt.amount_usdc = last.cost
        /\ last.resp.status_code = 200
        /\ last.resp.paid
        /\ last.resp.payment = <<NewestReceipt>>

\* the boundary: the balance was exactly the cost and is now 0
C1_Witness ==
    /\ LastSimulated
    /\ last.pre.balance_usdc = last.cost
    /\ last.cost > 0
    /\ last.resp.paid
    /\ balance_usdc = 0

\* C2: a simulated request made with balance < cost changes nothing and
\* returns 402, unpaid, no receipt, with the required and available amounts
C2_SimulatedInsufficientFunds ==
    (LastSimulated /\ last.pre.balance_usdc < last.cost) =>
        /\ last.raised = ""
        /\ WalletUnchanged
        /\ last.resp.status_code = 402
        /\ ~last.resp.paid
        /\ last.resp.payment = <<>>
        /\ last.resp.data.error = "Insufficient USDC balance"
        /\ last.resp.data.required = last.cost
        /\ last.resp.data.balance = balance_usdc

\* balance 0.005, cost 0.01: the balance stays 0.005
C2_Witness ==
    /\ LastSimulated
    /\ last.pre.balance_usdc = 500
    /\ last.cost = 1000
    /\ balance_usdc = 500
    /\ last.resp.status_code = 402

\* C3: a live request made with balance < cost returns a payment-required
\* result and changes no client state, so that the balance is never negative
\* after live requests of non-negative cost
C3_LiveInsufficientFunds ==
    /\ (LastLive /\ last.pre.balance_usdc < last.cost) =>
           /\ WalletUnchanged
           /\ ~last.resp.paid
           /\ last.resp.status_code = 402
    /\ (\A i \in 1..Len(payments) : payments[i].amount_usdc >= 0) => balance_usdc >= 0

\* C4: the receipts of the ledger have pairwise distinct transaction ids
C4_DistinctTransactionIds ==
    \A i, j \in 1..Len(payments) : i # j => payments[i].tx_id # payments[j].tx_id

\* C5: total_spent never decreases over a request, whatever cost is passed
C5_TotalSpentMonotone ==
    LastRequest => total_spent >= last.pre.total_spent

RECURSIVE SumAmounts(_)
SumAmounts(ledger) ==
    IF ledger = <<>> THEN 0
    ELSE ledger[1].amount_usdc + SumAmounts(Tail(ledger))

FirstGetFailed == LastLive /\ last.srv.first = "exc"
ResendFailed == LastLive /\ last.srv.first = "402" /\ last.srv.second = "exc"

\* C7: a transport failure on the first GET or on the signed resend changes
\* no client state and returns status 0, unpaid, no receipt, with the
\* message; the failed GET is the last one sent
C7_TransportFailureNoEffect ==
    (FirstGetFailed \/ ResendFailed) =>
        /\ last.raised = ""
        /\ WalletUnchanged
        /\ last.resp.status_code = 0
        /\ ~last.resp.paid
        /\ last.resp.payment = <<>>
        /\ last.resp.data.error = "Request failed"
        /\ last.wire = IF FirstGetFailed THEN <<"GET">>
                       ELSE <<"GET", "402", "GET+PAYMENT-SIGNATURE">>

\* the resend fails on a client that has already paid once
C7_Witness ==
    /\ ResendFailed
    /\ Len(payments) = 1
    /\ last.resp.status_code = 0

PaymentRejected ==
    LastLive /\ last.srv.first = "402" /\ last.srv.second \in RejectStatuses

\* C8: when the signed resend is answered with a status other than 200 no
\* client state changes and the response is unpaid with that status
C8_RejectedPaymentNoEffect ==
    PaymentRejected =>
        /\ last.raised = ""
        /\ WalletUnchanged
        /\ ~last.resp.paid
        /\ last.resp.payment = <<>>
        /\ last.resp.status_code = StatusCode(last.srv.second)
        /\ last.resp.data.error = "Payment rejected"

\* a 500 on the resend of a client that has already paid once
C8_Witness ==
    /\ PaymentRejected
    /\ last.srv.second = "500"
    /\ last.resp.status_code = 500
    /\ Len(payments) = 1

\* C9: a 402 with malformed requirements fails that request only: no second
\* GET, no client or store state changed, and the next request gives what it
\* would have given from the state before the malformed one
C9_MalformedRequirementsIsolated ==
    [][ /\ MalformedRequirements(last') =>
              /\ CurrentWallet' = last'.pre
              /\ ~last'.resp.paid
              /\ last'.resp.payment = <<>>
              /\ last'.wire = <<"GET", "402">>
              /\ UNCHANGED memory_vars
        /\ (MalformedRequirements(last) /\ last'.op = "request") =>
              \E r \in {request(last.pre, mode, last'.endpoint, last'.cost, last'.srv)} :
                  /\ CurrentWallet' = r.w
                  /\ last'.resp = r.resp
                  /\ last'.raised = r.raised
                  /\ last'.wire = r.wire
      ]_vars

\* a paid request right after one that failed on an undecodable header
C9_Witness ==
    /\ LastRequest
    /\ last.after = "ValueError"
    /\ last.resp.paid
    /\ Len(payments) = 1

\* C10: no request failure is process-fatal. Whenever one of the tokens of a
\* run_cycle met a failure of the four kinds (insufficient funds, transport
\* error, malformed payment requirements, rejected payment), run_cycle still
\* requested every token of its list and returned normally.
InsufficientFunds(l, i) == ~l.live /\ l.pre.balance_usdc < DataCost
TransportError(l, i) ==
    l.live /\ (l.envs[i].srv.first = "exc"
               \/ (l.envs[i].srv.first = "402" /\ l.envs[i].srv.second = "exc"))
ProtocolError(l, i) ==
    l.live /\ l.envs[i].srv.first = "402" /\ l.envs[i].srv.hdr \in UnusableHdrs \cup {"invalid"}
Rejected(l, i) ==
    l.live /\ l.envs[i].srv.first = "402" /\ l.envs[i].srv.second \in RejectStatuses
RequestFailed(l, i) ==
    InsufficientFunds(l, i) \/ TransportError(l, i) \/ ProtocolError(l, i) \/ Rejected(l, i)

C10_NoRequestFailureIsFatal ==
    (last.op = "run_cycle" /\ \E i \in 1..Len(last.tokens) : RequestFailed(last, i))
        => (last.raised = "" /\ last.requested = Len(last.tokens))

\* the failures a cycle does survive: all but an undecodable requirements header
C10_SurvivedFailures ==
    (/\ last.op = "run_cycle"
     /\ \A i \in 1..Len(last.tokens) :
           RequestFailed(last, i) /\ last.envs[i].srv.hdr # "invalid")
        => (last.raised = "" /\ last.requested = Len(last.tokens))

\* the fields of the PaymentReceipt dataclass
ReceiptFields ==
    {"tx_id", "amount_usdc", "payer", "payee", "network", "endpoint", "timestamp",
     "status", "gas_fee", "settlement_response"}

\* C11: every receipt of a successful request, live or simulated, exposes the
\* same set of fields, also in the dictionary form to_dict gives, whether or
\* not the live server supplied a settlement confirmation
C11_SameReceiptFields ==
    \A i \in 1..Len(payments) :
        /\ DOMAIN payments[i] = ReceiptFields
        /\ DOMAIN to_dict(payments[i]) = ReceiptFields

GetEvents == {"GET", "GET+PAYMENT-SIGNATURE"}

\* C12: within one live request the wire events are a prefix-closed run of
\* GET, 402, signed GET, 200, record: the signed resend is sent only third,
\* after a 402 that carried usable requirements; a payment is recorded only
\* fifth, after the signed resend was answered 200; at most two GETs are sent;
\* and the ledger grows exactly when the payment was recorded
C12_LiveRequestOrder ==
    LastLive =>
        LET wire == last.wire
            recorded == Len(payments) - Len(last.pre.payments)
        IN /\ Len(wire) >= 1 /\ wire[1] = "GET"
           /\ Cardinality({i \in 1..Len(wire) : wire[i] \in GetEvents}) <= 2
           /\ \A i \in 1..Len(wire) :
                 wire[i] = "GET+PAYMENT-SIGNATURE" =>
                     /\ i = 3
                     /\ wire[2] = "402"
                     /\ last.srv.first = "402"
                     /\ last.srv.hdr \in SignableHdrs
           /\ \A i \in 1..Len(wire) :
                 wire[i] = "record" =>
                     /\ i = 5
                     /\ wire[3] = "GET+PAYMENT-SIGNATURE"
                     /\ wire[4] = "200"
                     /\ last.srv.second = "200"
           /\ recorded \in {0, 1}
           /\ recorded = 1 <=> (\E i \in 1..Len(wire) : wire[i] = "record")
           /\ recorded = 1 <=> last.resp.paid

\* a live request that went through all five steps
C12_Witness ==
    /\ LastLive
    /\ last.wire = <<"GET", "402", "GET+PAYMENT-SIGNATURE", "200", "record">>
    /\ last.resp.paid
    /\ Len(payments) = Len(last.pre.payments) + 1

RowsOf(table, agent_id) == {i \in 1..Len(table) : table[i].agent_id = agent_id}

\* C13: the agent-state table holds at most one row per agent id, and
\* register_agent for an id already present changes only status (to active) and
\* the heartbeat of that row: agent type, wallet address, config, balance, total
\* spent and tasks completed stay, whatever values the call passes
C13_RegisterAgentIdempotent ==
    /\ \A i, j \in 1..Len(agent_state) :
          agent_state[i].agent_id = agent_state[j].agent_id => i = j
    /\ (last.op = "register_agent" /\ RowsOf(last.pre, last.agent_id) # {}) =>
          /\ Len(agent_state) = Len(last.pre)
          /\ \A i \in 1..Len(agent_state) :
                IF last.pre[i].agent_id = last.agent_id
                THEN /\ agent_state[i].status = "active"
                     /\ agent_state[i] =
                            [last.pre[i] EXCEPT !.status = "active",
                                                !.heartbeat = agent_state[i].heartbeat]
                ELSE agent_state[i] = last.pre[i]

\* register_agent for a present id whose row has a balance, passing another
\* agent type, wallet address and config
C13_Witness ==
    /\ last.op = "register_agent"
    /\ \E i \in RowsOf(last.pre, last.agent_id) :
          /\ last.pre[i].balance_usdc # Null
          /\ last.pre[i].agent_type # last.given.agent_type
          /\ last.pre[i].wallet_address # last.given.wallet_address
          /\ agent_state[i].heartbeat > last.pre[i].heartbeat

\* C14: after update_agent_spending(agent_id, balance, total_spent) a row for
\* agent_id exists that holds the given balance and total spent, whether or
\* not the agent was registered before
C14_SpendUpdateUpserts ==
    last.op = "update_agent_spending" =>
        \E i \in RowsOf(agent_state, last.agent_id) :
            /\ agent_state[i].balance_usdc = <<last.balance>>
            /\ agent_state[i].total_spent_usdc = <<last.spent>>

\* C15: right after store_market_data(token, data) with price p, every
\* get_price_history(token, limit) with limit >= 1 returns a row for that
\* observation whose price equals p; and a history query returns at most limit
\* rows, all for the requested token, most recently fetched first
C15_PriceRoundTrip ==
    /\ last.op = "get_price_history" =>
          /\ Len(last.result) <= last.limit
          /\ \A j \in 1..Len(last.result) : last.result[j].token_id = last.token_id
          /\ \A a, b \in 1..Len(last.result) :
                a < b => last.result[a].fetched_at >= last.result[b].fetched_at
    /\ last.op = "store_market_data" =>
          \A limit \in Limits :
             \A result \in get_price_history(CurrentMemory, last.token_id, limit) :
                \E j \in 1..Len(result) :
                   /\ result[j].id = last.id
                   /\ result[j].price_usd = last.price

\* the same round trip for prices with at most two decimals
C15_WholeCentRoundTrip ==
    (last.op = "store_market_data" /\ last.price % 10 = 0) =>
          \A limit \in Limits :
             \A result \in get_price_history(CurrentMemory, last.token_id, limit) :
                \E j \in 1..Len(result) :
                   /\ result[j].id = last.id
                   /\ result[j].price_usd = last.price

IsPrefix(s, t) == Len(s) <= Len(t) /\ \A i \in 1..Len(s) : s[i] = t[i]

\* C16: the observation log, the persisted payment log, the decision log and
\* the client's receipt ledger are append-only: every step leaves each
\* existing entry in place with all its fields and only adds entries after it
C16_AppendOnly ==
    [][/\ IsPrefix(market_data, market_data')
       /\ IsPrefix(payment_log, payment_log')
       /\ IsPrefix(strategy_log, strategy_log')
       /\ IsPrefix(payments, payments')]_vars

\* a cycle that ran while all four logs already had entries, and added to them
C16_Witness ==
    /\ last.op = "run_cycle"
    /\ Len(last.pre.payments) >= 1
    /\ Len(payments) > Len(last.pre.payments)
    /\ Len(market_data) >= 2
    /\ Len(payment_log) >= 2
    /\ Len(strategy_log) >= 2

LastAnalysis == last.op = "analyze_and_decide"

\* the records the last analyze_and_decide call wrote, in order
Written == SubSeq(strategy_log, Len(last.pre_log) + 1, Len(strategy_log))

WrittenWith(action_type, confidence) ==
    {i \in 1..Len(Written) :
        Written[i].action_type = action_type /\ Written[i].confidence = confidence}

\* C17: rule 1 writes an alert of confidence 0.85 iff volatility > 4.0 and
\* rule 2 an alert of confidence 0.90 iff |change_pct| > 3.0, both strictly and
\* independently of each other and of the sentiment index; the volatility
\* alert comes first; volatility 5.0, change 1.0, sentiment 50 gives exactly
\* one alert and nothing else
C17_AlertRules ==
    LastAnalysis =>
        /\ Cardinality(WrittenWith("alert", 85)) =
               IF last.data.volatility > 400 THEN 1 ELSE 0
        /\ Cardinality(WrittenWith("alert", 90)) =
               IF Abs(last.data.change) > 300 THEN 1 ELSE 0
        /\ \A i \in 1..Len(Written) :
               Written[i].action_type = "alert" => Written[i].confidence \in {85, 90}
        /\ \A i \in WrittenWith("alert", 85) :
               /\ Written[i].signal_name = "volatility_24h"
               /\ \A j \in WrittenWith("alert", 90) : i < j
        /\ \A j \in WrittenWith("alert", 90) : Written[j].signal_name = "price_change_24h"
        /\ (last.data.volatility = 500 /\ last.data.change = 100 /\ last.data.fgi = 50) =>
               /\ Len(Written) = 1
               /\ Written[1].action_type = "alert"
               /\ Written[1].confidence = 85

\* both alert rules fire on one observation, at values just above the
\* thresholds
C17_Witness ==
    /\ LastAnalysis
    /\ last.data.volatility = 401
    /\ last.data.change = 0 - 301
    /\ Cardinality(WrittenWith("alert", 85)) = 1
    /\ Cardinality(WrittenWith("alert", 90)) = 1

\* C18: for every sentiment index in 0..100, rule 3 writes exactly one
\* recommendation of confidence 0.70 iff the index is below 25 or above 75,
\* whatever rules 1 and 2 do; this includes the index 0
C18_SentimentRule ==
    (LastAnalysis /\ last.data.fgi \in 0..100) =>
        /\ Cardinality(WrittenWith("recommendation", 70)) =
               IF last.data.fgi < 25 \/ last.data.fgi > 75 THEN 1 ELSE 0
        /\ \A i \in 1..Len(Written) :
               Written[i].action_type = "recommendation" => Written[i].confidence = 70

\* the number of rules 1-3 whose condition holds for an observation
RulesHolding(data) ==
    (IF data.volatility > 400 THEN 1 ELSE 0)
    + (IF Abs(data.change) > 300 THEN 1 ELSE 0)
    + (IF data.fgi < 25 \/ data.fgi > 75 THEN 1 ELSE 0)

\* C19: a call writes one record per rule among rules 1-3 whose condition
\* holds, and the single observation record of confidence 0.95 iff none of
\* them holds; so it writes 1 to 3 records, never an observation next to an
\* alert or recommendation, and returns one decision per record; volatility
\* 1.0, change 0.5, sentiment 50 gives exactly one observation
C19_OneRecordPerRule ==
    LastAnalysis =>
        /\ Len(Written) \in 1..3
        /\ Len(last.decisions) = Len(Written)
        /\ IF RulesHolding(last.data) = 0
           THEN /\ Len(Written) = 1
                /\ Written[1].action_type = "observation"
                /\ Written[1].confidence = 95
           ELSE /\ Len(Written) = RulesHolding(last.data)
                /\ \A i \in 1..Len(Written) : Written[i].action_type # "observation"
        /\ (last.data.volatility = 100 /\ last.data.change = 50 /\ last.data.fgi = 50) =>
               /\ Len(Written) = 1
               /\ Written[1].action_type = "observation"

\* the same with rule 3 as the code evaluates it (an index of 0 counts as absent)
C19_RecordsPerFiredRule ==
    (LastAnalysis /\ last.data.fgi # 0) =>
        /\ Len(Written) \in 1..3
        /\ Len(last.decisions) = Len(Written)
        /\ IF RulesHolding(last.data) = 0
           THEN /\ Len(Written) = 1
                /\ Written[1].action_type = "observation"
                /\ Written[1].confidence = 95
           ELSE /\ Len(Written) = RulesHolding(last.data)
                /\ \A i \in 1..Len(Written) : Written[i].action_type # "observation"

\* the total spent persisted for an agent id (the column defaults to 0)
PersistedSpent(table, agent_id) ==
    LET i == CHOOSE i \in RowsOf(table, agent_id) : TRUE
    IN table[i].total_spent_usdc[1]

\* C20: the total spent persisted in the agent's row never decreases over
\* register_agent and fetch_and_store calls for that agent id, also when a new
\* MarketAgent with a fresh wallet took over the id
C20_PersistedSpentMonotone ==
    last.op \in {"fetch_and_store", "new_agent"} =>
        PersistedSpent(agent_state, AgentId) >= PersistedSpent(last.pre_state, AgentId)

\* the same while one MarketAgent and its wallet live
C20_MonotoneWithoutRestart ==
    (last.op = "fetch_and_store" /\ last.pre.total_spent >= PersistedSpent(last.pre_state, AgentId))
        => PersistedSpent(agent_state, AgentId) >= PersistedSpent(last.pre_state, AgentId)

LastCycle == last.op = "run_cycle"

FailureText == "FAILED: Insufficient balance for data purchase"

\* the decision records the last cycle wrote, in order
CycleWritten == SubSeq(strategy_log, Len(last.pre_mem.strategy_log) + 1, Len(strategy_log))

\* the observations the last cycle stored
CycleStored == SubSeq(market_data, Len(last.pre_mem.market_data) + 1, Len(market_data))

\* C21: when the wallet's request comes back unpaid, fetch_and_store stores no
\* observation, logs no payment, leaves the agent's row alone and writes
\* exactly one observation record describing the failure; run_cycle evaluates
\* no rule for that token. So a cycle that returned without any payment wrote
\* one failure record per token and nothing else, and in every cycle the
\* records other than failure records are for tokens whose observation was
\* stored
C21_UnpaidFetchFrame ==
    (LastCycle /\ last.raised = "") =>
        /\ payments = last.pre.payments =>
              /\ market_data = last.pre_mem.market_data
              /\ payment_log = last.pre_mem.payment_log
              /\ agent_state = last.pre_mem.agent_state
              /\ last.decisions = <<>>
              /\ Len(CycleWritten) = Len(last.tokens)
              /\ \A i \in 1..Len(CycleWritten) :
                    /\ CycleWritten[i].action_type = "observation"
                    /\ CycleWritten[i].decision = FailureText
                    /\ CycleWritten[i].token_id = last.tokens[i]
                    /\ CycleWritten[i].agent_id = AgentId
        /\ Len(CycleStored) = Len(payments) - Len(last.pre.payments)
        /\ Len(payment_log) - Len(last.pre_mem.payment_log) = Len(CycleStored)
        /\ Cardinality({i \in 1..Len(CycleWritten) : CycleWritten[i].decision = FailureText})
               = Len(last.tokens) - Len(CycleStored)
        /\ \A i \in 1..Len(CycleWritten) :
               CycleWritten[i].decision # FailureText =>
                   \E j \in 1..Len(CycleStored) :
                       CycleStored[j].token_id = CycleWritten[i].token_id

\* a cycle over two tokens of which the first came back unpaid and the second
\* was paid and analysed
C21_Witness ==
    /\ LastCycle
    /\ last.raised = ""
    /\ Len(last.tokens) = 2
    /\ Len(CycleStored) = 1
    /\ CycleStored[1].token_id = last.tokens[2]
    /\ CycleWritten[1].decision = FailureText
    /\ CycleWritten[1].token_id = last.tokens[1]
    /\ Len(last.decisions) >= 1

\* the live path sends a GET first; the simulated path sends nothing
TookLivePath == Len(last.wire) >= 1 /\ last.wire[1] = "GET"

\* C22: request takes the live path in mode 'live'; in mode 'auto' iff the
\* endpoint starts with 'http'; never in any other mode. The choice is made
\* per call
C22_VariantDispatch ==
    LastRequest =>
        /\ TookLivePath <=>
              \/ mode = "live"
              \/ mode = "auto" /\ last.endpoint = HttpEndpoint
        /\ ~TookLivePath => last.wire \in {<<>>, <<"record">>}

\* one client in mode 'auto' whose ledger holds a live and a simulated payment
\* against the same balance
C22_Witness ==
    /\ LastRequest
    /\ mode = "auto"
    /\ Len(payments) = 2
    /\ payments[1].endpoint # payments[2].endpoint
    /\ \E i \in 1..2 : payments[i].endpoint = HttpEndpoint
    /\ \E i \in 1..2 : payments[i].endpoint = SimEndpoint
    /\ balance_usdc = InitialBalance - payments[1].amount_usdc - payments[2].amount_usdc
    /\ payment_count = 2

\* the amount the signed payment of the last live request authorizes
AuthorizedAmount ==
    sign_payment([payTo |-> ServerPayTo,
                  maxAmountRequired |-> last.srv.maxAmount]).payload.value

\* C23: for a successful live payment, the amount on the receipt and the
\* amount deducted from the balance equal the amount authorized in the signed
\* payment, the server's maxAmountRequired
C23_RecordedEqualsAuthorized ==
    (LastLive /\ last.resp.paid) =>
        /\ last.resp.payment[1].amount_usdc = AuthorizedAmount
        /\ last.pre.balance_usdc - balance_usdc = AuthorizedAmount

\* the same when the caller passes the price the server asks for
C23_EqualAtServerPrice ==
    (LastLive /\ last.resp.paid /\ last.cost = last.srv.maxAmount) =>
        /\ last.resp.payment[1].amount_usdc = AuthorizedAmount
        /\ last.pre.balance_usdc - balance_usdc = AuthorizedAmount

\* C24: for every response request returns, paid is true iff a receipt is
\* attached, iff exactly one receipt was appended to the ledger during the
\* call, the attached receipt being the last ledger entry; when paid is false
\* the ledger, balance, total_spent and payment_count are as before the call
C24_PaidIffReceipt ==
    (LastRequest /\ last.raised = "") =>
        /\ last.resp.paid <=> last.resp.payment # <<>>
        /\ last.resp.paid <=> Len(payments) = Len(last.pre.payments) + 1
        /\ Len(payments) - Len(last.pre.payments) \in {0, 1}
        /\ IsPrefix(last.pre.payments, payments)
        /\ last.resp.paid => last.resp.payment = <<NewestReceipt>>
        /\ ~last.resp.paid =>
              /\ payments = last.pre.payments
              /\ balance_usdc = last.pre.balance_usdc
              /\ total_spent = last.pre.total_spent
              /\ payment_count = last.pre.payment_count

\* a paid call on a ledger that already held a receipt, after which the
\* response carries the newest entry
C24_Witness ==
    /\ LastRequest
    /\ last.raised = ""
    /\ last.resp.paid
    /\ Len(last.pre.payments) = 1
    /\ Len(payments) = 2
    /\ last.resp.payment = <<payments[2]>>

PersistedMatchesWallet ==
    /\ Cardinality({i \in 1..Len(payment_log) : payment_log[i].payer = WalletAddress})
           = payment_count
    /\ payment_count >= 1 =>
          \E i \in RowsOf(agent_state, AgentId) :
              /\ agent_state[i].balance_usdc = <<get_wallet_status(CurrentWallet).balance_usdc>>
              /\ agent_state[i].total_spent_usdc =
                     <<get_wallet_status(CurrentWallet).total_spent_usdc>>

\* C25: for one agent on a fresh store, after any sequence of fetch_and_store
\* calls the payment-log rows paid by the agent's wallet are as many as the
\* wallet's payment_count, and once a payment succeeded the agent's row holds
\* the wallet's balance and total spent to 4 decimals
C25_PersistedMatchesWallet == PersistedMatchesWallet

\* the same as long as the ledger's transaction ids are pairwise distinct
C25_MatchesWithDistinctIds == C4_DistinctTransactionIds => PersistedMatchesWallet

LastFetch == last.op = "fetch_and_store"

\* the decision records the last fetch_and_store call wrote
FetchWritten == SubSeq(strategy_log, Len(last.pre_mem.strategy_log) + 1, Len(strategy_log))

\* C26: fetch_and_store records the insufficient-balance failure only when the
\* wallet's balance was below the 0.01 cost at the time of the request; and
\* when a live endpoint answers 200 without asking for payment, its data is
\* stored, not discarded
C26_FailureCauseLogged ==
    LastFetch =>
        /\ (\E i \in 1..Len(FetchWritten) : FetchWritten[i].decision = FailureText)
               => last.pre.balance_usdc < DataCost
        /\ (last.raised = "" /\ is_live_call(mode, AgentEndpoint(mode, "ethereum"))
            /\ last.env.srv.first = "200")
               => Len(market_data) = Len(last.pre_mem.market_data) + 1

\* the last simulated request was refused for insufficient funds
RefusedInsufficient ==
    /\ LastSimulated
    /\ last.raised = ""
    /\ last.resp.status_code = 402
    /\ last.resp.data.error = "Insufficient USDC balance"
    /\ ~last.resp.paid

\* C27: in the simulated variant with a fixed cost c > 0 and starting balance
\* 10.00, at most floor(10.00 / c) requests are ever paid; once a request
\* returns insufficient funds, every later request with the same cost also
\* returns insufficient funds and changes no state
C27_FixedCostExhaustion ==
    /\ []((LastSimulated /\ last.cost > 0) =>
              /\ payment_count <= InitialBalance \div last.cost
              /\ payment_count * last.cost = InitialBalance - balance_usdc)
    /\ [][(RefusedInsufficient /\ last'.op = "request" /\ ~last'.live
           /\ last'.cost = last.cost)
              => /\ RefusedInsufficient'
                 /\ CurrentWallet' = CurrentWallet
                 /\ UNCHANGED memory_vars]_vars

\* a caller paying 4.00 was served twice and then refused twice in a row
C27_Witness ==
    /\ RefusedInsufficient
    /\ last.cost = 400000
    /\ payment_count = 2
    /\ balance_usdc = 200000
    /\ last.pre = CurrentWallet
    /\ calls = 4

=============================================================================
